---- MODULE Spec2Model ----
(***************************************************************************)
(* A model of zipline/utils/run_algo.py: the extension loader              *)
(* (load_extensions with the process-wide _loaded_extensions set) and the  *)
(* backtest runner (_run).                                                 *)
(***************************************************************************)
EXTENDS Integers, Sequences, FiniteSets, TLC

\* ------------------------------------------------------------------ bounds

\* longest extension list a caller passes to load_extensions
MaxExtensions == 2
\* longest extension list of a call in the concurrent specification
MaxConcExtensions == 1
\* longest list of define strings given to _run
MaxDefines == 3

\* ------------------------------------------------------- extension loader

\* An identifier is its path split into stem and suffix, so that
\* ext.endswith('.py') is computed and not assumed.
DefaultExtensionPath == <<"extension", ".py">>

ScriptExt == <<"a", ".py">>

ModuleExt == <<"pkg.m">>

AllExts == {DefaultExtensionPath, ScriptExt, ModuleExt}

\* the identifiers the callers list
Exts == {ScriptExt, ModuleExt}

Threads == {1, 2}

MainThread == 1

\* every sequence over S of length at most n
SeqUpTo(S, n) == UNION {[1..k -> S] : k \in 0..n}

ExtensionLists == SeqUpTo(Exts, MaxExtensions)

ConcExtensionLists == SeqUpTo(Exts, MaxConcExtensions)

VARIABLES
    _loaded_extensions, \* the module-level set
    default_file,       \* does the default extension file exist on disk
    pc,                 \* per thread: position in load_extensions
    call,               \* per thread: the arguments of its current/last call
    extensions,         \* per thread: the local `extensions` being iterated
    idx,                \* per thread: position of the for loop (1-based)
    trace,              \* per thread: what the current call did, in order
    prevTrace,          \* per thread: trace of the previous call when the
                        \*   current call repeats its arguments, else <<>>
    repeat              \* per thread: current call repeats the previous args

extVars == <<_loaded_extensions, default_file, pc, call, extensions, idx,
             trace, prevTrace, repeat>>

VARIABLES
    rpc,               \* position in _run
    algotext,          \* "None" or "text"
    algofile,          \* "None" or "file"
    defines,           \* the define strings, each a sequence of characters
    local_namespace,   \* use the interactive session's namespace
    user_ns,           \* get_ipython().user_ns, the session's namespace
    namespace,         \* the local `namespace`
    ns0,               \* `namespace` as it was before the first define
    di,                \* position of the `for assign in defines` loop
    start,             \* start session
    end,               \* end session
    distance,          \* what session_distance(start, end) returned
    print_algo,        \* the print_algo argument, once read
    trading_calendar,  \* the local `trading_calendar`
    calendar_arg,      \* the trading_calendar argument, once read
    bundle_data,       \* the local `bundle_data`
    data,              \* the local `data`
    pipeline_loader,   \* the local `pipeline_loader`
    metrics_arg,       \* the metrics_set argument, once read
    metrics_set,       \* the local `metrics_set`
    blotter_arg,       \* the blotter argument, once read
    blotter,           \* the local `blotter`
    perf,              \* the local `perf`
    output,            \* the output argument, once read
    calls,             \* the collaborators called by this run, in order
    err,               \* the exception that ended the run, if any
    algo,              \* what TradingAlgorithm was constructed with
    held               \* the resources this run opened and has not released

runVars == <<rpc, algotext, algofile, defines, local_namespace, user_ns,
             namespace, ns0, di, start, end, distance, print_algo,
             trading_calendar, calendar_arg, bundle_data, data,
             pipeline_loader, metrics_arg, metrics_set, blotter_arg, blotter,
             perf, output, calls, err, algo, held>>

vars == <<extVars, runVars>>

EndsWithPy(ext) == Len(ext) >= 1 /\ ext[Len(ext)] = ".py"

\* a loader that puts the default path last
ConcatvAppended(first, rest) == rest \o first

\* concatv([default_extension_path], extensions)
Concatv(first, rest) == first \o rest

NoCall == [default |-> FALSE, extensions |-> <<>>, strict |-> FALSE,
           reload |-> FALSE]

ExtInit ==
    /\ _loaded_extensions = {}
    /\ default_file = FALSE
    /\ pc = [t \in Threads |-> "idle"]
    /\ call = [t \in Threads |-> NoCall]
    /\ extensions = [t \in Threads |-> <<>>]
    /\ idx = [t \in Threads |-> 1]
    /\ trace = [t \in Threads |-> <<>>]
    /\ prevTrace = [t \in Threads |-> <<>>]
    /\ repeat = [t \in Threads |-> FALSE]

\* load_extensions is entered: the default path is ensured and prepended.
Call(t, default, exts, strict, reload) ==
    LET args == [default |-> default, extensions |-> exts,
                 strict |-> strict, reload |-> reload]
        again == pc[t] # "idle" /\ call[t] = args
    IN  /\ pc[t] \in {"idle", "returned", "raised"}
        /\ call' = [call EXCEPT ![t] = args]
        /\ default_file' = (default_file \/ default)
        /\ extensions' = [extensions EXCEPT ![t] =
               IF default THEN Concatv(<<DefaultExtensionPath>>, exts)
               ELSE exts]
        /\ idx' = [idx EXCEPT ![t] = 1]
        /\ repeat' = [repeat EXCEPT ![t] = again]
        /\ prevTrace' = [prevTrace EXCEPT ![t] =
               IF again THEN trace[t] ELSE <<>>]
        /\ trace' = [trace EXCEPT ![t] = <<>>]
        /\ pc' = [pc EXCEPT ![t] = "loop"]
        /\ UNCHANGED _loaded_extensions
        /\ UNCHANGED runVars

\* a loader that never consults the set
AlreadyLoadedNever(t, ext) == FALSE

\* `if ext in _loaded_extensions and not reload`
AlreadyLoaded(t, ext) == ext \in _loaded_extensions /\ ~call[t].reload

\* the for loop takes the next identifier and `continue`s
LoopSkip(t) ==
    /\ pc[t] = "loop"
    /\ idx[t] <= Len(extensions[t])
    /\ AlreadyLoaded(t, extensions[t][idx[t]])
    /\ trace' = [trace EXCEPT ![t] = Append(@,
           [ext |-> extensions[t][idx[t]], how |-> "skip",
            result |-> "skipped"])]
    /\ idx' = [idx EXCEPT ![t] = @ + 1]
    /\ UNCHANGED runVars
    /\ UNCHANGED <<_loaded_extensions, default_file, pc, call, extensions,
                   prevTrace, repeat>>

\* a loader that holds a lock from the membership test to the add
LoopEnterLocked(t) ==
    /\ \A u \in Threads \ {t} : pc[u] # "try"
    /\ pc[t] = "loop"
    /\ idx[t] <= Len(extensions[t])
    /\ ~AlreadyLoaded(t, extensions[t][idx[t]])
    /\ pc' = [pc EXCEPT ![t] = "try"]
    /\ UNCHANGED runVars
    /\ UNCHANGED <<_loaded_extensions, default_file, call, extensions, idx,
                   trace, prevTrace, repeat>>

\* the for loop takes the next identifier and enters the try block
LoopEnter(t) ==
    /\ pc[t] = "loop"
    /\ idx[t] <= Len(extensions[t])
    /\ ~AlreadyLoaded(t, extensions[t][idx[t]])
    /\ pc' = [pc EXCEPT ![t] = "try"]
    /\ UNCHANGED runVars
    /\ UNCHANGED <<_loaded_extensions, default_file, call, extensions, idx,
                   trace, prevTrace, repeat>>

\* how the try block runs the identifier
HowLoaded(ext) == IF EndsWithPy(ext) THEN "exec" ELSE "import"

\* a loader that forgets the earlier members on a load
AddLoadedForgetting(loaded, ext) == {ext}

\* where a successful load records the identifier
AddLoaded(loaded, ext) == loaded \cup {ext}

\* a loader whose add is not in the else branch
KeepLoadedAdding(loaded, ext) == loaded \cup {ext}

\* a loader that drops an identifier whose load failed
KeepLoadedDiscarding(loaded, ext) == loaded \ {ext}

\* where a failed, non-strict load leaves the set
KeepLoaded(loaded, ext) == loaded

\* the exec / __import__ completes: the else branch adds the identifier
LoadOk(t) ==
    LET ext == extensions[t][idx[t]]
    IN  /\ pc[t] = "try"
        /\ _loaded_extensions' = AddLoaded(_loaded_extensions, ext)
        /\ trace' = [trace EXCEPT ![t] = Append(@,
               [ext |-> ext, how |-> HowLoaded(ext), result |-> "loaded"])]
        /\ idx' = [idx EXCEPT ![t] = @ + 1]
        /\ pc' = [pc EXCEPT ![t] = "loop"]
        /\ UNCHANGED runVars
        /\ UNCHANGED <<default_file, call, extensions, prevTrace, repeat>>

\* a loader whose except branch never re-raises
ReraisesNever(strict) == FALSE

\* what the except branch does with the strict flag
Reraises(strict) == strict

\* the exec / __import__ raises, strict: the exception propagates
LoadFailStrict(t) ==
    LET ext == extensions[t][idx[t]]
    IN  /\ pc[t] = "try"
        /\ Reraises(call[t].strict)
        /\ trace' = [trace EXCEPT ![t] = Append(@,
               [ext |-> ext, how |-> HowLoaded(ext), result |-> "raised"])]
        /\ pc' = [pc EXCEPT ![t] = "raised"]
        /\ UNCHANGED runVars
        /\ UNCHANGED <<_loaded_extensions, default_file, call, extensions,
                       idx, prevTrace, repeat>>

\* the exec / __import__ raises, not strict: warn and go on
LoadFailWarn(t) ==
    LET ext == extensions[t][idx[t]]
    IN  /\ pc[t] = "try"
        /\ ~Reraises(call[t].strict)
        /\ _loaded_extensions' = KeepLoaded(_loaded_extensions, ext)
        /\ trace' = [trace EXCEPT ![t] = Append(@,
               [ext |-> ext, how |-> HowLoaded(ext), result |-> "warned"])]
        /\ idx' = [idx EXCEPT ![t] = @ + 1]
        /\ pc' = [pc EXCEPT ![t] = "loop"]
        /\ UNCHANGED runVars
        /\ UNCHANGED <<default_file, call, extensions, prevTrace, repeat>>

\* the for loop is exhausted: load_extensions returns
Return(t) ==
    /\ pc[t] = "loop"
    /\ idx[t] > Len(extensions[t])
    /\ pc' = [pc EXCEPT ![t] = "returned"]
    /\ UNCHANGED runVars
    /\ UNCHANGED <<_loaded_extensions, default_file, call, extensions, idx,
                   trace, prevTrace, repeat>>

\* ------------------------------------------------------------- _run: state

\* a namespace maps names (sequences of characters) to values
EmptyNamespace == [n \in {} |-> 0]

\* the interactive session holds a variable z, or nothing
SessionNamespace == [n \in {<<"z">>} |-> 5]

NoError == [kind |-> "none", detail |-> <<>>]

\* a metrics set or blotter: a string identifier, or an instance, which is
\* the caller's own or the one a registry built for an identifier
NoComponent == [kind |-> "unset", registry |-> "none", id |-> "unset"]

StringId(id) == [kind |-> "string", registry |-> "none", id |-> id]

LiveInstance == [kind |-> "instance", registry |-> "none", id |-> "live"]

Registered(registry, id) ==
    [kind |-> "instance", registry |-> registry, id |-> id]

\* no TradingAlgorithm has been constructed
NoAlgorithm ==
    [namespace |-> EmptyNamespace, data |-> "unset", script |-> "unset",
     metrics_set |-> NoComponent, blotter |-> NoComponent]

\* _run has not been entered; the session namespace is given separately
RunUnset ==
    /\ rpc = "idle"
    /\ algotext = "None"
    /\ algofile = "None"
    /\ defines = <<>>
    /\ local_namespace = FALSE
    /\ namespace = EmptyNamespace
    /\ ns0 = EmptyNamespace
    /\ di = 1
    /\ start = 1
    /\ end = 1
    /\ distance = 0
    /\ print_algo = FALSE
    /\ trading_calendar = "None"
    /\ calendar_arg = "None"
    /\ bundle_data = "unset"
    /\ data = "unset"
    /\ pipeline_loader = "unset"
    /\ metrics_arg = NoComponent
    /\ metrics_set = NoComponent
    /\ blotter_arg = NoComponent
    /\ blotter = NoComponent
    /\ perf = "unset"
    /\ output = "unset"
    /\ calls = <<>>
    /\ err = NoError
    /\ algo = NoAlgorithm
    /\ held = {}

\* the process after import, outside an interactive session
LoadInit == ExtInit /\ RunUnset /\ user_ns = EmptyNamespace

\* ---- sequential use: every call is made by the main thread

SeqCall ==
    \E default \in BOOLEAN, exts \in ExtensionLists,
       strict \in BOOLEAN, reload \in BOOLEAN :
        Call(MainThread, default, exts, strict, reload)

SeqLoopSkip == LoopSkip(MainThread)

SeqLoopEnter == LoopEnter(MainThread)

SeqLoadOk == LoadOk(MainThread)

SeqLoadFailStrict == LoadFailStrict(MainThread)

SeqLoadFailWarn == LoadFailWarn(MainThread)

SeqReturn == Return(MainThread)

ExtNext ==
    \/ SeqCall
    \/ SeqLoopSkip
    \/ SeqLoopEnter
    \/ SeqLoadOk
    \/ SeqLoadFailStrict
    \/ SeqLoadFailWarn
    \/ SeqReturn

SpecExt == LoadInit /\ [][ExtNext]_vars

\* ---- concurrent use: two threads call load_extensions with reload=False

ConcCall(t) ==
    \E exts \in ConcExtensionLists, strict \in BOOLEAN :
        Call(t, FALSE, exts, strict, FALSE)

ConcNext ==
    \E t \in Threads :
        \/ ConcCall(t)
        \/ LoopSkip(t)
        \/ LoopEnter(t)
        \/ LoadOk(t)
        \/ LoadFailStrict(t)
        \/ LoadFailWarn(t)
        \/ Return(t)

SpecConc == LoadInit /\ [][ConcNext]_vars

\* ----------------------------------------------------- _run: the defines

NameChars == {"x", "y", "z"}

DigitChars == {"1", "2"}

DigitValue(ch) == IF ch = "1" THEN 1 ELSE 2

\* the define strings a caller passes: x=1, y=x, x=y, x, y=x==1, x=z
DefineStrings ==
    { <<"x", "=", "1">>,
      <<"y", "=", "x">>,
      <<"x", "=", "y">>,
      <<"x">>,
      <<"y", "=", "x", "=", "=", "1">>,
      <<"x", "=", "z">> }

DefineLists == SeqUpTo(DefineStrings, MaxDefines)

\* the maxsplit argument of assign.split('=', 2)
SplitMaxsplit == 2

\* position of the first sep in s, 0 when there is none
Find(s, sep) ==
    IF \E i \in 1..Len(s) : s[i] = sep
    THEN CHOOSE i \in 1..Len(s) :
             s[i] = sep /\ \A j \in 1..(i - 1) : s[j] # sep
    ELSE 0

\* str.split(sep, maxsplit): cut at the first maxsplit occurrences of sep
RECURSIVE Split(_, _, _)
Split(s, sep, maxsplit) ==
    IF maxsplit = 0 \/ Find(s, sep) = 0
    THEN <<s>>
    ELSE <<SubSeq(s, 1, Find(s, sep) - 1)>>
         \o Split(SubSeq(s, Find(s, sep) + 1, Len(s)), sep, maxsplit - 1)

\* `name, value = assign.split('=', 2)` unpacks exactly two parts
Unpacks(assign) == Len(Split(assign, "=", SplitMaxsplit)) = 2

DefineName(assign) == Split(assign, "=", SplitMaxsplit)[1]

DefineValue(assign) == Split(assign, "=", SplitMaxsplit)[2]

\* an evaluation that sees none of the earlier names
EvalNamespaceFresh(ns) == EmptyNamespace

\* the namespace that the expression of a define is evaluated in
EvalNamespace(ns) == ns

\* eval(value, namespace) for the expressions of DefineStrings: a digit is
\* its value, a name is looked up, anything else raises
Eval(value, ns) ==
    IF Len(value) = 1 /\ value[1] \in DigitChars
    THEN [ok |-> TRUE, value |-> DigitValue(value[1])]
    ELSE IF Len(value) = 1 /\ value[1] \in NameChars /\ value \in DOMAIN ns
    THEN [ok |-> TRUE, value |-> ns[value]]
    ELSE [ok |-> FALSE, value |-> 0]

\* a binding that drops what was bound before
BindAlone(ns, name, v) == [n \in {name} |-> v]

\* namespace[name] = v
Bind(ns, name, v) ==
    [n \in DOMAIN ns \cup {name} |-> IF n = name THEN v ELSE ns[n]]

Called(fn) == calls' = Append(calls, fn)

\* a failure that is recorded while the run stays where it is
FailsAndStays(kind, detail) ==
    /\ err' = [kind |-> kind, detail |-> detail]
    /\ rpc' = rpc

Fails(kind, detail) ==
    /\ err' = [kind |-> kind, detail |-> detail]
    /\ rpc' = "failed"

\* _run is entered with its arguments
RunStart(text, file, defs, local, s, e) ==
    /\ rpc = "idle"
    /\ algotext' = text
    /\ algofile' = file
    /\ defines' = defs
    /\ local_namespace' = local
    /\ start' = s
    /\ end' = e
    /\ rpc' = "benchmark"
    /\ UNCHANGED extVars
    /\ UNCHANGED <<user_ns, namespace, ns0, di, distance, print_algo,
                   trading_calendar, calendar_arg, bundle_data, data,
                   pipeline_loader, metrics_arg, metrics_set, blotter_arg,
                   blotter, perf, output, calls, err, algo, held>>

\* benchmark_returns was given
BenchmarkGiven ==
    /\ rpc = "benchmark"
    /\ rpc' = "namespace"
    /\ UNCHANGED extVars
    /\ UNCHANGED <<algotext, algofile, defines, local_namespace, user_ns,
                   namespace, ns0, di, start, end, distance, print_algo,
                   trading_calendar, calendar_arg, bundle_data, data,
                   pipeline_loader, metrics_arg, metrics_set, blotter_arg,
                   blotter, perf, output, calls, err, algo, held>>

\* benchmark_returns is None: load_market_data returns or raises
BenchmarkLoad(ok) ==
    /\ rpc = "benchmark"
    /\ Called("load_market_data")
    /\ IF ok THEN rpc' = "namespace" /\ err' = err
       ELSE Fails("BenchmarkLoadError", <<>>)
    /\ UNCHANGED extVars
    /\ UNCHANGED <<algotext, algofile, defines, local_namespace, user_ns,
                   namespace, ns0, di, start, end, distance, print_algo,
                   trading_calendar, calendar_arg, bundle_data, data,
                   pipeline_loader, metrics_arg, metrics_set, blotter_arg,
                   blotter, perf, output, algo, held>>

\* algotext is given: the namespace is the session's or a fresh one
NamespaceOpen ==
    /\ rpc = "namespace"
    /\ algotext # "None"
    /\ namespace' = IF local_namespace THEN user_ns ELSE EmptyNamespace
    /\ ns0' = namespace'
    /\ di' = 1
    /\ rpc' = "defines"
    /\ UNCHANGED extVars
    /\ UNCHANGED <<algotext, algofile, defines, local_namespace, user_ns,
                   start, end, distance, print_algo, trading_calendar,
                   calendar_arg, bundle_data, data, pipeline_loader,
                   metrics_arg, metrics_set, blotter_arg, blotter, perf,
                   output, calls, err, algo, held>>

\* a rejection that evaluates the string before it refuses it
DefineBadAfterEval ==
    /\ rpc = "defines"
    /\ di <= Len(defines)
    /\ ~Unpacks(defines[di])
    /\ Called("eval")
    /\ Fails("DefinitionSyntaxError", defines[di])
    /\ UNCHANGED extVars
    /\ UNCHANGED <<algotext, algofile, defines, local_namespace, user_ns,
                   namespace, ns0, di, start, end, distance, print_algo,
                   trading_calendar, calendar_arg, bundle_data, data,
                   pipeline_loader, metrics_arg, metrics_set, blotter_arg,
                   blotter, perf, output, algo, held>>

\* the split of a define does not unpack into name and value
DefineBad ==
    /\ rpc = "defines"
    /\ di <= Len(defines)
    /\ ~Unpacks(defines[di])
    /\ Fails("DefinitionSyntaxError", defines[di])
    /\ UNCHANGED extVars
    /\ UNCHANGED <<algotext, algofile, defines, local_namespace, user_ns,
                   namespace, ns0, di, start, end, distance, print_algo,
                   trading_calendar, calendar_arg, bundle_data, data,
                   pipeline_loader, metrics_arg, metrics_set, blotter_arg,
                   blotter, perf, output, calls, algo, held>>

\* the expression of a define raises
DefineEvalFail ==
    /\ rpc = "defines"
    /\ di <= Len(defines)
    /\ Unpacks(defines[di])
    /\ ~Eval(DefineValue(defines[di]), EvalNamespace(namespace)).ok
    /\ Called("eval")
    /\ Fails("DefinitionEvaluationError", DefineName(defines[di]))
    /\ UNCHANGED extVars
    /\ UNCHANGED <<algotext, algofile, defines, local_namespace, user_ns,
                   namespace, ns0, di, start, end, distance, print_algo,
                   trading_calendar, calendar_arg, bundle_data, data,
                   pipeline_loader, metrics_arg, metrics_set, blotter_arg,
                   blotter, perf, output, algo, held>>

\* the expression of a define is evaluated and bound; with local_namespace
\* the namespace is the session's own dictionary
DefineBind ==
    /\ rpc = "defines"
    /\ di <= Len(defines)
    /\ Unpacks(defines[di])
    /\ Eval(DefineValue(defines[di]), EvalNamespace(namespace)).ok
    /\ Called("eval")
    /\ namespace' = Bind(namespace, DefineName(defines[di]),
           Eval(DefineValue(defines[di]), EvalNamespace(namespace)).value)
    /\ user_ns' = IF local_namespace THEN namespace' ELSE user_ns
    /\ di' = di + 1
    /\ UNCHANGED extVars
    /\ UNCHANGED <<rpc, algotext, algofile, defines, local_namespace, ns0,
                   start, end, distance, print_algo, trading_calendar,
                   calendar_arg, bundle_data, data, pipeline_loader,
                   metrics_arg, metrics_set, blotter_arg, blotter, perf,
                   output, err, algo, held>>

\* the loop over the defines is exhausted
DefinesDone ==
    /\ rpc = "defines"
    /\ di > Len(defines)
    /\ rpc' = "print"
    /\ UNCHANGED extVars
    /\ UNCHANGED <<algotext, algofile, defines, local_namespace, user_ns,
                   namespace, ns0, di, start, end, distance, print_algo,
                   trading_calendar, calendar_arg, bundle_data, data,
                   pipeline_loader, metrics_arg, metrics_set, blotter_arg,
                   blotter, perf, output, calls, err, algo, held>>

\* defines were given and algotext is None
DefinesWithoutText ==
    /\ rpc = "namespace"
    /\ algotext = "None"
    /\ defines # <<>>
    /\ Fails("ConfigurationConflictError", <<>>)
    /\ UNCHANGED extVars
    /\ UNCHANGED <<algotext, algofile, defines, local_namespace, user_ns,
                   namespace, ns0, di, start, end, distance, print_algo,
                   trading_calendar, calendar_arg, bundle_data, data,
                   pipeline_loader, metrics_arg, metrics_set, blotter_arg,
                   blotter, perf, output, calls, algo, held>>

\* a namespace step that reads the file whatever the defines are
NoTextIgnoringDefines ==
    /\ rpc = "namespace"
    /\ algotext = "None"
    /\ namespace' = EmptyNamespace
    /\ ns0' = EmptyNamespace
    /\ algotext' = IF algofile # "None" THEN "text" ELSE algotext
    /\ rpc' = "print"
    /\ UNCHANGED extVars
    /\ UNCHANGED <<algofile, defines, local_namespace, user_ns, di, start,
                   end, distance, print_algo, trading_calendar, calendar_arg,
                   bundle_data, data, pipeline_loader, metrics_arg,
                   metrics_set, blotter_arg, blotter, perf, output, calls,
                   err, algo, held>>

\* no algotext and no defines: an empty namespace, and the file is read
NoText ==
    /\ rpc = "namespace"
    /\ algotext = "None"
    /\ defines = <<>>
    /\ namespace' = EmptyNamespace
    /\ ns0' = EmptyNamespace
    /\ algotext' = IF algofile # "None" THEN "text" ELSE algotext
    /\ rpc' = "print"
    /\ UNCHANGED extVars
    /\ UNCHANGED <<algofile, defines, local_namespace, user_ns, di, start,
                   end, distance, print_algo, trading_calendar, calendar_arg,
                   bundle_data, data, pipeline_loader, metrics_arg,
                   metrics_set, blotter_arg, blotter, perf, output, calls,
                   err, algo, held>>

\* ---------------------------------------------- _run: the rest of the run

\* print_algo: the source is highlighted or echoed; highlighting a missing
\* source (algotext is None) may raise inside the highlighter
PrintAlgo(flag, pygments, raises) ==
    /\ rpc = "print"
    /\ raises => (flag /\ pygments /\ algotext = "None")
    /\ print_algo' = flag
    /\ calls' = IF ~flag THEN calls
                ELSE IF pygments THEN Append(calls, "highlight")
                ELSE Append(calls, "click.echo")
    /\ IF raises THEN Fails("EchoError", <<>>)
       ELSE rpc' = "calendar" /\ err' = err
    /\ UNCHANGED extVars
    /\ UNCHANGED <<algotext, algofile, defines, local_namespace, user_ns,
                 namespace, ns0, di, start, end, distance,
                 trading_calendar, calendar_arg, bundle_data, data,
                 pipeline_loader, metrics_arg, metrics_set, blotter_arg,
                 blotter, perf, output, algo, held>>

\* `if trading_calendar is None: trading_calendar = get_calendar('XNYS')`
DefaultCalendar(arg) == IF arg = "None" THEN "XNYS" ELSE arg

CalendarDefault(arg) ==
    /\ rpc = "calendar"
    /\ calendar_arg' = arg
    /\ trading_calendar' = DefaultCalendar(arg)
    /\ calls' = IF arg = "None" THEN Append(calls, "get_calendar") ELSE calls
    /\ rpc' = "dates"
    /\ UNCHANGED extVars
    /\ UNCHANGED <<algotext, algofile, defines, local_namespace, user_ns,
                 namespace, ns0, di, start, end, distance, print_algo,
                 bundle_data, data, pipeline_loader, metrics_arg,
                 metrics_set, blotter_arg, blotter, perf, output, err,
                 algo, held>>

\* a check that lets a distance of 0 through
EmptyRangeBelowZero(dist) == dist < 0

\* `if trading_calendar.session_distance(start, end) < 1`
EmptyRange(dist) == dist < 1

\* the date check: session_distance returns dist
DateCheck(dist) ==
    /\ rpc = "dates"
    /\ distance' = dist
    /\ Called("session_distance")
    /\ IF EmptyRange(dist) THEN Fails("EmptyDateRangeError", <<start, end>>)
       ELSE rpc' = "bundle" /\ err' = err
    /\ UNCHANGED extVars
    /\ UNCHANGED <<algotext, algofile, defines, local_namespace, user_ns,
                 namespace, ns0, di, start, end, print_algo,
                 trading_calendar, calendar_arg, bundle_data, data,
                 pipeline_loader, metrics_arg, metrics_set, blotter_arg,
                 blotter, perf, output, algo, held>>

\* bundles.load returns the bundle or raises
BundleLoad(ok) ==
    /\ rpc = "bundle"
    /\ Called("bundles.load")
    /\ bundle_data' = IF ok THEN "bundle" ELSE bundle_data
    /\ held' = IF ok THEN held \cup {"bundle"} ELSE held
    /\ IF ok THEN rpc' = "portal" /\ err' = err
       ELSE Fails("BundleLoadError", <<>>)
    /\ UNCHANGED extVars
    /\ UNCHANGED <<algotext, algofile, defines, local_namespace, user_ns,
                 namespace, ns0, di, start, end, distance, print_algo,
                 trading_calendar, calendar_arg, data, pipeline_loader,
                 metrics_arg, metrics_set, blotter_arg, blotter, perf,
                 output, algo>>

\* the data portal is built from the bundle unless the caller gave one
Portal(custom_data_portal) ==
    /\ rpc = "portal"
    /\ data' = IF custom_data_portal = "None" THEN "DataPortal"
               ELSE custom_data_portal
    /\ calls' = IF custom_data_portal = "None"
                THEN Append(calls, "DataPortal") ELSE calls
    /\ held' = IF custom_data_portal = "None"
               THEN held \cup {"DataPortal"} ELSE held
    /\ rpc' = "loader"
    /\ UNCHANGED extVars
    /\ UNCHANGED <<algotext, algofile, defines, local_namespace, user_ns,
                 namespace, ns0, di, start, end, distance, print_algo,
                 trading_calendar, calendar_arg, bundle_data,
                 pipeline_loader, metrics_arg, metrics_set, blotter_arg,
                 blotter, perf, output, err, algo>>

\* pipeline_loader = USEquityPricingLoader(...)
PipelineLoader ==
    /\ rpc = "loader"
    /\ Called("USEquityPricingLoader")
    /\ pipeline_loader' = "USEquityPricingLoader"
    /\ rpc' = "metrics"
    /\ UNCHANGED extVars
    /\ UNCHANGED <<algotext, algofile, defines, local_namespace, user_ns,
                 namespace, ns0, di, start, end, distance, print_algo,
                 trading_calendar, calendar_arg, bundle_data, data,
                 metrics_arg, metrics_set, blotter_arg, blotter, perf,
                 output, err, algo, held>>

\* the identifiers registered with zipline.finance.metrics
MetricsRegistry == {"m_only"}

\* the identifiers registered for Blotter with zipline.extensions
BlotterRegistry == {"b_only"}

ComponentArgs == {LiveInstance, StringId("m_only"), StringId("b_only")}

\* a metrics step that hands the argument on without looking it up
MetricsResolvePassing(arg) ==
    /\ rpc = "metrics"
    /\ metrics_arg' = arg
    /\ metrics_set' = arg
    /\ rpc' = "blotter"
    /\ UNCHANGED extVars
    /\ UNCHANGED <<algotext, algofile, defines, local_namespace, user_ns,
                 namespace, ns0, di, start, end, distance, print_algo,
                 trading_calendar, calendar_arg, bundle_data, data,
                 pipeline_loader, blotter_arg, blotter, perf, output, calls,
                 err, algo, held>>

\* a string metrics_set is looked up with metrics.load
MetricsResolve(arg) ==
    /\ rpc = "metrics"
    /\ metrics_arg' = arg
    /\ calls' = IF arg.kind = "string" THEN Append(calls, "metrics.load")
                ELSE calls
    /\ IF arg.kind = "string" /\ arg.id \notin MetricsRegistry
       THEN /\ Fails("UnknownComponentError", <<"metrics", arg.id>>)
            /\ metrics_set' = arg
       ELSE /\ metrics_set' = IF arg.kind = "string"
                              THEN Registered("metrics", arg.id) ELSE arg
            /\ rpc' = "blotter"
            /\ err' = err
    /\ UNCHANGED extVars
    /\ UNCHANGED <<algotext, algofile, defines, local_namespace, user_ns,
                 namespace, ns0, di, start, end, distance, print_algo,
                 trading_calendar, calendar_arg, bundle_data, data,
                 pipeline_loader, blotter_arg, blotter, perf, output,
                 algo, held>>

\* a string blotter is looked up with load(Blotter, blotter)
BlotterResolve(arg) ==
    /\ rpc = "blotter"
    /\ blotter_arg' = arg
    /\ calls' = IF arg.kind = "string" THEN Append(calls, "load")
                ELSE calls
    /\ IF arg.kind = "string" /\ arg.id \notin BlotterRegistry
       THEN /\ Fails("UnknownComponentError", <<"Blotter", arg.id>>)
            /\ blotter' = arg
       ELSE /\ blotter' = IF arg.kind = "string"
                          THEN Registered("Blotter", arg.id) ELSE arg
            /\ rpc' = "simulate"
            /\ err' = err
    /\ UNCHANGED extVars
    /\ UNCHANGED <<algotext, algofile, defines, local_namespace, user_ns,
                 namespace, ns0, di, start, end, distance, print_algo,
                 trading_calendar, calendar_arg, bundle_data, data,
                 pipeline_loader, metrics_arg, metrics_set, perf, output,
                 algo, held>>

\* the columns of USEquityPricing
USEquityPricingColumns == {"USEquityPricing.close", "USEquityPricing.volume"}

\* a dispatch that hands the loader out for any column
ChooseLoaderAny(column) ==
    [ok |-> TRUE, loader |-> pipeline_loader, detail |-> <<>>]

\* choose_loader(column): the run's pipeline loader, or the ValueError that
\* names the column
ChooseLoader(column) ==
    IF column \in USEquityPricingColumns
    THEN [ok |-> TRUE, loader |-> pipeline_loader, detail |-> <<>>]
    ELSE [ok |-> FALSE, loader |-> "none", detail |-> <<column>>]

\* what TradingAlgorithm.run() does with get_pipeline_loader: a strategy
\* with a pipeline has its column dispatched when the pipeline is first
\* evaluated, ahead of the first simulation step, and a dispatch that raises
\* ends the run there
RunCalls(column) ==
    IF column = "none" THEN <<"simulation">>
    ELSE IF ChooseLoader(column).ok THEN <<"choose_loader", "simulation">>
    ELSE <<"choose_loader">>

\* TradingAlgorithm(...).run() returns the performance or raises; column is
\* the column of the strategy's pipeline, if it has one
Simulate(ok, column) ==
    /\ rpc = "simulate"
    /\ (column # "none" /\ ~ChooseLoader(column).ok) => ~ok
    /\ algo' = [namespace |-> namespace, data |-> data, script |-> algotext,
                metrics_set |-> metrics_set, blotter |-> blotter]
    /\ calls' = calls \o <<"TradingAlgorithm", "run">> \o RunCalls(column)
    /\ perf' = IF ok THEN "perf" ELSE perf
    /\ IF ok THEN rpc' = "output" /\ err' = err
       ELSE IF column # "none" /\ ~ChooseLoader(column).ok
       THEN Fails("UnregisteredColumnError", ChooseLoader(column).detail)
       ELSE Fails("SimulationError", <<>>)
    /\ UNCHANGED extVars
    /\ UNCHANGED <<algotext, algofile, defines, local_namespace, user_ns,
                 namespace, ns0, di, start, end, distance, print_algo,
                 trading_calendar, calendar_arg, bundle_data, data,
                 pipeline_loader, metrics_arg, metrics_set, blotter_arg,
                 blotter, output, held>>

Outputs == {"-", "devnull", "path"}

\* an output step without the os.devnull test
OutputPickling(out, collected) ==
    /\ rpc = "output"
    /\ output' = out
    /\ calls' = IF out = "-" THEN Append(calls, "click.echo")
                ELSE Append(calls, "to_pickle")
    /\ held' = IF collected THEN {} ELSE held
    /\ rpc' = "returned"
    /\ UNCHANGED extVars
    /\ UNCHANGED <<algotext, algofile, defines, local_namespace, user_ns,
                 namespace, ns0, di, start, end, distance, print_algo,
                 trading_calendar, calendar_arg, bundle_data, data,
                 pipeline_loader, metrics_arg, metrics_set, blotter_arg,
                 blotter, perf, err, algo>>

\* the result is echoed, dropped or pickled, and returned; nothing is
\* closed, so what the run opened is released only if the garbage collector
\* has reclaimed the locals of the returned frame
Output(out, collected) ==
    /\ rpc = "output"
    /\ output' = out
    /\ calls' = IF out = "-" THEN Append(calls, "click.echo")
                ELSE IF out # "devnull" THEN Append(calls, "to_pickle")
                ELSE calls
    /\ held' = IF collected THEN {} ELSE held
    /\ rpc' = "returned"
    /\ UNCHANGED extVars
    /\ UNCHANGED <<algotext, algofile, defines, local_namespace, user_ns,
                 namespace, ns0, di, start, end, distance, print_algo,
                 trading_calendar, calendar_arg, bundle_data, data,
                 pipeline_loader, metrics_arg, metrics_set, blotter_arg,
                 blotter, perf, err, algo>>

\* ------------------------------------------------------ _run: the inputs

Dates == {1, 2}

\* what session_distance may return
MaxDistance == 1

Distances == 0..MaxDistance

\* the define lists of the runs that go through the whole of _run
RunDefineLists ==
    { <<>>,
      << <<"x", "=", "1">> >>,
      << <<"x">> >>,
      << <<"x", "=", "y">> >> }

RunInit == ExtInit /\ RunUnset /\ user_ns \in {EmptyNamespace, SessionNamespace}

\* _run is called directly, by a caller that is not run_algorithm
RunEnter ==
    /\ pc[MainThread] = "idle"
    /\ \E text \in {"None", "text"}, file \in {"None", "file"},
          defs \in RunDefineLists, local \in BOOLEAN, s \in Dates,
          e \in Dates :
           RunStart(text, file, defs, local, s, e)

\* the extension lists given to run_algorithm
AlgorithmExtensionLists == SeqUpTo(AllExts, MaxConcExtensions)

\* run_algorithm is entered: it calls load_extensions, without reload
RunAlgorithmExtensions ==
    /\ rpc = "idle"
    /\ pc[MainThread] = "idle"
    /\ \E default \in BOOLEAN, exts \in AlgorithmExtensionLists,
          strict \in BOOLEAN :
           Call(MainThread, default, exts, strict, FALSE)

\* this run's _run was called by run_algorithm, whose load_extensions
\* returned
ViaRunAlgorithm == pc[MainThread] = "returned"

\* run_algorithm calls _run: live callables, no algofile, no algotext, no
\* defines, no session namespace
RunAlgorithmRun ==
    /\ ViaRunAlgorithm
    /\ \E s \in Dates, e \in Dates :
           RunStart("None", "None", <<>>, FALSE, s, e)

\* the print_algo argument: False from run_algorithm
PrintAlgoArgs == IF ViaRunAlgorithm THEN {FALSE} ELSE BOOLEAN

\* the output argument: os.devnull from run_algorithm
OutputArgs == IF ViaRunAlgorithm THEN {"devnull"} ELSE Outputs

RunBenchmarkLoad == \E ok \in BOOLEAN : BenchmarkLoad(ok)

RunPrintAlgo ==
    \E flag \in PrintAlgoArgs, pygments \in BOOLEAN, raises \in BOOLEAN :
        PrintAlgo(flag, pygments, raises)

RunCalendarDefault == \E arg \in {"None", "custom"} : CalendarDefault(arg)

RunDateCheck == \E dist \in Distances : DateCheck(dist)

RunBundleLoad == \E ok \in BOOLEAN : BundleLoad(ok)

RunPortal == \E custom \in {"None", "custom"} : Portal(custom)

RunMetricsResolve == \E arg \in ComponentArgs : MetricsResolve(arg)

RunBlotterResolve == \E arg \in ComponentArgs : BlotterResolve(arg)

\* the strategy has no pipeline, or one over a column
PipelineColumns == {"none", "USEquityPricing.close", "Fundamentals.pe"}

RunSimulate ==
    \E ok \in BOOLEAN, column \in PipelineColumns : Simulate(ok, column)

RunOutput ==
    \E out \in OutputArgs, collected \in BOOLEAN : Output(out, collected)

RunNext ==
    \/ RunEnter
    \/ RunAlgorithmExtensions
    \/ SeqLoopSkip
    \/ SeqLoopEnter
    \/ SeqLoadOk
    \/ SeqLoadFailStrict
    \/ SeqLoadFailWarn
    \/ SeqReturn
    \/ RunAlgorithmRun
    \/ BenchmarkGiven
    \/ RunBenchmarkLoad
    \/ NamespaceOpen
    \/ DefineBad
    \/ DefineEvalFail
    \/ DefineBind
    \/ DefinesDone
    \/ DefinesWithoutText
    \/ NoText
    \/ RunPrintAlgo
    \/ RunCalendarDefault
    \/ RunDateCheck
    \/ RunBundleLoad
    \/ RunPortal
    \/ PipelineLoader
    \/ RunMetricsResolve
    \/ RunBlotterResolve
    \/ RunSimulate
    \/ RunOutput

SpecRun == RunInit /\ [][RunNext]_vars

\* ---- the namespace builder alone: _run up to the end of the defines, for
\* every list of define strings

DefEnter ==
    \E text \in {"None", "text"}, defs \in DefineLists, local \in BOOLEAN :
        RunStart(text, "None", defs, local, 1, 2)

DefNext ==
    \/ DefEnter
    \/ BenchmarkGiven
    \/ NamespaceOpen
    \/ DefineBad
    \/ DefineEvalFail
    \/ DefineBind
    \/ DefinesDone
    \/ DefinesWithoutText
    \/ NoText

SpecDefines == RunInit /\ [][DefNext]_vars

\* ------------------------------------------------ claims: extension loader

\* the sequence load_extensions is to work through, from the arguments alone
Expected(c) ==
    IF c.default THEN <<DefaultExtensionPath>> \o c.extensions
    ELSE c.extensions

\* what the previous call and the current call did, when they are two
\* consecutive calls with the same arguments
BothCalls == prevTrace[MainThread] \o trace[MainThread]

TwiceNoReload == repeat[MainThread] /\ ~call[MainThread].reload

IsExecution(entry) == entry.how \in {"exec", "import"}

ExecutionsOf(tr, e) == {i \in 1..Len(tr) : tr[i].ext = e /\ IsExecution(tr[i])}

\* C1 as stated: two consecutive calls with the same arguments and
\* reload=False execute (exec or import) each identifier at most once in
\* total.
C1_AtMostOneExecution ==
    TwiceNoReload =>
        \A e \in AllExts : Cardinality(ExecutionsOf(BothCalls, e)) <= 1

\* C1, amended: two consecutive calls with the same arguments and
\* reload=False never execute an identifier again once a load of it has
\* succeeded; every execution of an identifier but its last one is a load
\* that failed, so an identifier is loaded successfully at most once.
C1_NoExecutionAfterSuccess ==
    TwiceNoReload =>
        \A i, j \in 1..Len(BothCalls) :
            (/\ i < j
             /\ BothCalls[i].ext = BothCalls[j].ext
             /\ BothCalls[i].result = "loaded")
            => ~IsExecution(BothCalls[j])

\* the second of two identical non-reload calls has returned, having skipped
\* an identifier that the first one loaded
C1_Witness ==
    /\ TwiceNoReload
    /\ pc[MainThread] = "returned"
    /\ \E i \in 1..Len(prevTrace[MainThread]),
          j \in 1..Len(trace[MainThread]) :
          /\ prevTrace[MainThread][i].result = "loaded"
          /\ trace[MainThread][j].ext = prevTrace[MainThread][i].ext
          /\ trace[MainThread][j].result = "skipped"

\* a non-strict call never raises, and once it has returned it has worked
\* through every identifier of its list
NonStrictCompletes ==
    \A t \in Threads :
        ~call[t].strict =>
            /\ pc[t] # "raised"
            /\ \A i \in 1..Len(trace[t]) : trace[t][i].result # "raised"
            /\ pc[t] = "returned" =>
                 /\ Len(trace[t]) = Len(Expected(call[t]))
                 /\ \A i \in 1..Len(trace[t]) :
                        trace[t][i].ext = Expected(call[t])[i]

\* an identifier is skipped only when it is a member and reload is False, so
\* a call with reload=False attempts every listed identifier that is not a
\* member when its turn comes
NonMemberIsAttempted ==
    \A t \in Threads :
        \A i \in 1..Len(trace[t]) :
            trace[t][i].result = "skipped" =>
                trace[t][i].ext \in _loaded_extensions /\ ~call[t].reload

\* the step that ends in a warning leaves _loaded_extensions as it was
WarningLeavesSet ==
    \A t \in Threads :
        (/\ Len(trace'[t]) = Len(trace[t]) + 1
         /\ trace'[t][Len(trace'[t])].result = "warned")
        => _loaded_extensions' = _loaded_extensions

\* C2 as stated: with strict=False a failing load does not raise, warns, the
\* call attempts the remaining identifiers and returns, and the failing
\* identifier (one that no attempt of the call loaded) is not in
\* _loaded_extensions afterwards.
C2_FailedIsAbsent ==
    /\ NonStrictCompletes
    /\ NonMemberIsAttempted
    /\ \A t \in Threads :
           (pc[t] = "returned" /\ ~call[t].strict) =>
               \A i \in 1..Len(trace[t]) :
                   (/\ trace[t][i].result = "warned"
                    /\ \A j \in 1..Len(trace[t]) :
                           trace[t][j].ext = trace[t][i].ext =>
                               trace[t][j].result # "loaded")
                   => trace[t][i].ext \notin _loaded_extensions

\* C2, amended: with strict=False a failing load does not raise, warns, the
\* call goes on through every remaining identifier and returns; the failing
\* attempt leaves _loaded_extensions exactly as it was (the identifier is a
\* member afterwards only if it was one before or another attempt loads it),
\* and an identifier that is not a member is attempted, never skipped, by a
\* call with reload=False.
C2_FailedLeavesSetUnchanged ==
    /\ []NonStrictCompletes
    /\ []NonMemberIsAttempted
    /\ [][WarningLeavesSet]_vars

\* a non-strict call warned about an identifier, went on to a later one and
\* returned, the identifier is not a member, and the call was a retry of a
\* call that had warned about it already
C2_Witness ==
    /\ pc[MainThread] = "returned"
    /\ ~call[MainThread].strict
    /\ TwiceNoReload
    /\ \E i \in 1..Len(trace[MainThread]) :
          /\ i < Len(trace[MainThread])
          /\ trace[MainThread][i].result = "warned"
          /\ trace[MainThread][i].ext \notin _loaded_extensions
          /\ trace[MainThread][i + 1].result = "loaded"
          /\ \E j \in 1..Len(prevTrace[MainThread]) :
                /\ prevTrace[MainThread][j].ext = trace[MainThread][i].ext
                /\ prevTrace[MainThread][j].result = "warned"

\* a strict call never warns; when it has raised, the raise is the last thing
\* it did, at the position of the loop, the identifiers after it are
\* untouched, and what it loaded before is in the set
StrictRaises ==
    \A t \in Threads :
        /\ call[t].strict =>
               \A i \in 1..Len(trace[t]) : trace[t][i].result # "warned"
        /\ pc[t] = "raised" =>
               /\ call[t].strict
               /\ Len(trace[t]) = idx[t]
               /\ Len(trace[t]) <= Len(Expected(call[t]))
               /\ trace[t][Len(trace[t])].result = "raised"
               /\ \A i \in 1..Len(trace[t]) :
                      /\ trace[t][i].ext = Expected(call[t])[i]
                      /\ i < Len(trace[t]) =>
                             trace[t][i].result \in {"loaded", "skipped"}
                      /\ trace[t][i].result = "loaded" =>
                             trace[t][i].ext \in _loaded_extensions

\* the raising step adds nothing, and after it the call does nothing more
RaiseLeavesSet ==
    \A t \in Threads :
        /\ (pc[t] # "raised" /\ pc'[t] = "raised") =>
               _loaded_extensions' = _loaded_extensions
        /\ (pc[t] = "raised" /\ pc'[t] = "raised") => trace'[t] = trace[t]

\* C3: with strict=True a failing load raises at that identifier: nothing
\* after it is attempted in the call, the failing identifier is not added,
\* and the identifiers loaded earlier in the call stay in the set.
C3_StrictStopsAtFailure ==
    /\ []StrictRaises
    /\ [][RaiseLeavesSet]_vars

\* a strict call loaded an identifier, raised at the next one, which is not
\* a member, and left a later identifier untouched
C3_Witness ==
    /\ pc[MainThread] = "raised"
    /\ Len(trace[MainThread]) = 2
    /\ Len(extensions[MainThread]) = 3
    /\ trace[MainThread][1].result = "loaded"
    /\ trace[MainThread][1].ext \in _loaded_extensions
    /\ trace[MainThread][2].ext \notin _loaded_extensions
    /\ extensions[MainThread][3] \notin _loaded_extensions

\* C4: identifiers are taken strictly in order, the default path first when
\* default is true: what a call has done so far is a prefix of
\* [default path] + list, and when identifier k is attempted each earlier
\* one has been loaded, skipped or warned about.
C4_InOrder ==
    \A t \in Threads :
        /\ Len(trace[t]) <= Len(Expected(call[t]))
        /\ \A i \in 1..Len(trace[t]) : trace[t][i].ext = Expected(call[t])[i]
        /\ pc[t] = "try" =>
               /\ idx[t] <= Len(Expected(call[t]))
               /\ extensions[t][idx[t]] = Expected(call[t])[idx[t]]
               /\ Len(trace[t]) = idx[t] - 1
               /\ \A i \in 1..(idx[t] - 1) :
                      trace[t][i].result \in {"loaded", "skipped", "warned"}

\* the second listed identifier is being attempted after the default path
\* was skipped and the first listed identifier failed with a warning
C4_Witness ==
    /\ pc[MainThread] = "try"
    /\ call[MainThread].default
    /\ idx[MainThread] = 3
    /\ trace[MainThread][1].ext = DefaultExtensionPath
    /\ trace[MainThread][1].result = "skipped"
    /\ trace[MainThread][2].result = "warned"
    /\ extensions[MainThread][3] # extensions[MainThread][2]
    /\ extensions[MainThread][3] # DefaultExtensionPath

\* a step never removes a member, and a step adds an identifier only by
\* completing a load of exactly that identifier
GrowsOnlyBySuccess ==
    /\ _loaded_extensions \subseteq _loaded_extensions'
    /\ \A e \in _loaded_extensions' \ _loaded_extensions :
           \E t \in Threads :
               trace'[t] = Append(trace[t],
                   [ext |-> e, how |-> HowLoaded(e), result |-> "loaded"])

\* C5: across any sequence of calls _loaded_extensions never loses a member,
\* and an identifier is a member only if a load of exactly that identifier
\* has completed without raising.
C5_MonotoneAndEarned == [][GrowsOnlyBySuccess]_vars

\* a member stays a member through a reload of it that failed, next to a
\* member loaded in the same call
C5_Witness ==
    /\ call[MainThread].reload
    /\ Len(trace[MainThread]) = 2
    /\ trace[MainThread][1].result = "warned"
    /\ trace[MainThread][1].ext \in _loaded_extensions
    /\ trace[MainThread][2].result = "loaded"
    /\ trace[MainThread][2].ext # trace[MainThread][1].ext
    /\ Cardinality(_loaded_extensions) = 3

\* C6: nothing serialises the membership test and the add: while one thread
\* is between them for an identifier, another thread whose loop is at the
\* same identifier, not yet a member, enters the try block too, and both
\* loads can complete.
C6_NoLock ==
    \A t, u \in Threads :
        (/\ t # u
         /\ pc[t] = "try"
         /\ pc[u] = "loop"
         /\ idx[u] <= Len(extensions[u])
         /\ extensions[u][idx[u]] = extensions[t][idx[t]]
         /\ ~AlreadyLoaded(u, extensions[u][idx[u]]))
        => ENABLED LoopEnter(u)

\* two concurrent reload=False calls have both executed the same script,
\* and both executions completed
C6_Witness ==
    /\ ~call[1].reload /\ ~call[2].reload
    /\ call[1].extensions = <<ScriptExt>>
    /\ call[2].extensions = <<ScriptExt>>
    /\ trace[1] = <<[ext |-> ScriptExt, how |-> "exec", result |-> "loaded"]>>
    /\ trace[2] = <<[ext |-> ScriptExt, how |-> "exec", result |-> "loaded"]>>

\* ------------------------------------------------------------ claims: _run

\* the collaborators that open data resources or run the simulation
ResourceCalls ==
    {"bundles.load", "DataPortal", "USEquityPricingLoader",
     "TradingAlgorithm"}

CallsMade == {calls[i] : i \in 1..Len(calls)}

DateChecked == "session_distance" \in CallsMade

\* C7: when session_distance(start, end) < 1 the run fails with the
\* empty-date-range error naming both dates and no data resource has been
\* opened; when it is >= 1 the run goes on to bundles.load; a missing
\* calendar has been replaced by XNYS when the check is made.
C7_EmptyRangeFailsEarly ==
    /\ ~DateChecked => CallsMade \cap ResourceCalls = {}
    /\ DateChecked =>
           /\ trading_calendar # "None"
           /\ calendar_arg = "None" => trading_calendar = "XNYS"
    /\ (DateChecked /\ distance < 1) =>
           /\ rpc = "failed"
           /\ err = [kind |-> "EmptyDateRangeError", detail |-> <<start, end>>]
           /\ CallsMade \cap ResourceCalls = {}
           /\ calls[Len(calls)] = "session_distance"
    /\ (DateChecked /\ distance >= 1) =>
           /\ err.kind # "EmptyDateRangeError"
           /\ rpc = "bundle" \/ "bundles.load" \in CallsMade
           /\ \A i \in 1..(Len(calls) - 1) :
                  calls[i] = "session_distance" => calls[i + 1] = "bundles.load"
    /\ err.kind = "EmptyDateRangeError" => (DateChecked /\ distance < 1)

\* a run without a calendar failed the date check on the default calendar
C7_Witness ==
    /\ rpc = "failed"
    /\ err = [kind |-> "EmptyDateRangeError", detail |-> <<1, 2>>]
    /\ calendar_arg = "None"
    /\ trading_calendar = "XNYS"
    /\ distance = 0
    /\ bundle_data = "unset"

ValidationErrors ==
    {"DefinitionSyntaxError", "DefinitionEvaluationError",
     "ConfigurationConflictError", "EmptyDateRangeError",
     "UnknownComponentError"}

\* C8: every validation error is raised before any expensive resource is
\* opened: a run that ends in one has called neither bundles.load nor
\* DataPortal, and the metrics and blotter are resolved before the data
\* portal and the pipeline loader are built.
C8_ValidationBeforeResources ==
    /\ err.kind \in ValidationErrors =>
           "bundles.load" \notin CallsMade /\ "DataPortal" \notin CallsMade
    /\ \A i, j \in 1..Len(calls) :
           (/\ calls[i] \in {"session_distance", "metrics.load", "load"}
            /\ calls[j] \in {"DataPortal", "USEquityPricingLoader"})
           => i < j

\* ---- the defines

HasEquals(assign) == \E i \in 1..Len(assign) : assign[i] = "="

FirstEquals(assign) ==
    CHOOSE i \in 1..Len(assign) :
        assign[i] = "=" /\ \A j \in 1..(i - 1) : assign[j] # "="

\* the name and the expression text of a define, cut at its first '='
NameOf(assign) == SubSeq(assign, 1, FirstEquals(assign) - 1)

ExprOf(assign) == SubSeq(assign, FirstEquals(assign) + 1, Len(assign))

\* the namespace built from the first k defines, each evaluated against the
\* namespace built from the ones before it
RECURSIVE BuiltFrom(_)
BuiltFrom(k) ==
    IF k = 0 THEN ns0
    ELSE LET before == BuiltFrom(k - 1)
             name == NameOf(defines[k])
             v == Eval(ExprOf(defines[k]), before).value
         IN  [n \in DOMAIN before \cup {name} |->
                 IF n = name THEN v ELSE before[n]]

\* the defines of 1..k that bind name n
DefinesOf(n, k) == {j \in 1..k : NameOf(defines[j]) = n}

Max(S) == CHOOSE m \in S : \A j \in S : j <= m

\* C9: the namespace after the defines binds each name to the value of its
\* expression in the namespace built from the strictly earlier defines (on
\* top of the pre-seeded namespace); the last define of a name wins; an
\* expression reads names of earlier defines, and one that names something
\* bound only by a later define fails.
C9_NamespaceFold ==
    /\ namespace = BuiltFrom(di - 1)
    /\ \A n \in DOMAIN namespace :
           IF DefinesOf(n, di - 1) = {}
           THEN n \in DOMAIN ns0 /\ namespace[n] = ns0[n]
           ELSE LET k == Max(DefinesOf(n, di - 1))
                IN  namespace[n] =
                        Eval(ExprOf(defines[k]), BuiltFrom(k - 1)).value
    /\ \A k \in 1..(di - 1) :
           /\ Eval(ExprOf(defines[k]), BuiltFrom(k - 1)).ok
           /\ ExprOf(defines[k])[1] \in NameChars =>
                  \/ ExprOf(defines[k]) \in DOMAIN ns0
                  \/ DefinesOf(ExprOf(defines[k]), k - 1) # {}
    /\ err.kind = "DefinitionEvaluationError" =>
           ~Eval(ExprOf(defines[di]), BuiltFrom(di - 1)).ok
    /\ (/\ err.kind \in {"DefinitionSyntaxError", "DefinitionEvaluationError"}
        /\ Cardinality({i \in 1..Len(defines[di]) : defines[di][i] = "="}) = 1)
       => /\ err.kind = "DefinitionEvaluationError"
          /\ ~Eval(ExprOf(defines[di]), BuiltFrom(di - 1)).ok

\* x=1, y=x, x=z in a session that holds z: y read the earlier x, and the
\* later define of x overrode the first
C9_Witness ==
    /\ rpc = "print"
    /\ defines = << <<"x", "=", "1">>, <<"y", "=", "x">>, <<"x", "=", "z">> >>
    /\ local_namespace
    /\ namespace[<<"x">>] = 5
    /\ namespace[<<"y">>] = 1
    /\ namespace[<<"z">>] = 5

\* C10: a define is split on its first '=' and the definition-syntax error
\* is raised if and only if the string has no '='; a string with two or
\* more '=' is accepted, with everything after the first '=' as expression.
C10_SyntaxErrorIffNoEquals ==
    /\ err.kind = "DefinitionSyntaxError" => ~HasEquals(defines[di])
    /\ \A k \in 1..(di - 1) :
           /\ HasEquals(defines[k])
           /\ DefineName(defines[k]) = NameOf(defines[k])
           /\ DefineValue(defines[k]) = ExprOf(defines[k])
    /\ (/\ err.kind \in {"DefinitionSyntaxError", "DefinitionEvaluationError"}
        /\ ~HasEquals(defines[di]))
       => err.kind = "DefinitionSyntaxError"

\* how many times a collaborator has been called so far
CountCalls(fn) == Cardinality({i \in 1..Len(calls) : calls[i] = fn})

\* C11 as stated: a run that ends in the definition-syntax error for a
\* string without '=' has evaluated no define expression of its list and has
\* bound nothing in the namespace.
C11_NoEvaluationBeforeRejection ==
    (err.kind = "DefinitionSyntaxError" /\ ~HasEquals(defines[di]))
    => /\ "eval" \notin CallsMade
       /\ namespace = ns0

\* C11, amended: a define string that is rejected is rejected before its own
\* expression and that of any later define is evaluated or bound, and after
\* every define that precedes it in the list has been evaluated and bound:
\* at the rejection of the k-th define exactly k-1 expressions have been
\* evaluated and the namespace is the one built from the first k-1 defines.
C11_RejectionStopsLaterEvaluation ==
    err.kind = "DefinitionSyntaxError"
    => /\ rpc = "failed"
       /\ err.detail = defines[di]
       /\ CountCalls("eval") = di - 1
       /\ namespace = BuiltFrom(di - 1)
       /\ DOMAIN namespace =
              DOMAIN ns0 \cup {NameOf(defines[k]) : k \in 1..(di - 1)}

\* x=1, y=x, x: the third string is rejected after two evaluations
C11_Witness ==
    /\ err.kind = "DefinitionSyntaxError"
    /\ di = 3
    /\ defines[3] = <<"x">>
    /\ CountCalls("eval") = 2
    /\ <<"y">> \in DOMAIN namespace

\* ---- defines without algotext

\* C12: a run with defines and no algotext (with or without an algofile)
\* never gets past the namespace step: it ends in the configuration-conflict
\* error, with no define evaluated, no calendar check, no bundle load and no
\* simulation; a run with no defines and no algotext goes on from that step
\* with an empty namespace.
C12_DefinesNeedAlgotext ==
    /\ (algotext = "None" /\ defines # <<>>) =>
           /\ rpc \in {"idle", "benchmark", "namespace", "failed"}
           /\ rpc = "failed" =>
                  err.kind \in {"ConfigurationConflictError",
                                "BenchmarkLoadError"}
    /\ (rpc = "namespace" /\ algotext = "None" /\ defines # <<>>) =>
           ENABLED DefinesWithoutText
    /\ err.kind = "ConfigurationConflictError" =>
           /\ algotext = "None" /\ defines # <<>>
           /\ rpc = "failed"
           /\ namespace = EmptyNamespace
           /\ di = 1
           /\ CallsMade \subseteq {"load_market_data"}
           /\ perf = "unset"
    /\ (algotext = "None" /\ defines = <<>>
          /\ rpc \notin {"idle", "benchmark", "namespace"}) =>
           /\ namespace = EmptyNamespace
           /\ err.kind \notin {"ConfigurationConflictError",
                               "DefinitionSyntaxError",
                               "DefinitionEvaluationError"}
    /\ (rpc = "namespace" /\ algotext = "None" /\ defines = <<>>) =>
           ENABLED NoText /\ ~ENABLED DefinesWithoutText

\* an algofile and one define, no algotext: the conflict error
C12_Witness ==
    /\ rpc = "failed"
    /\ err.kind = "ConfigurationConflictError"
    /\ algofile = "file"
    /\ Len(defines) = 1
    /\ calls = <<>>

\* ---- metrics set and blotter

\* the instance that an argument of one kind stands for: itself, or the one
\* registered under its name in the registry of that kind
ResolvedFrom(arg, registry) ==
    IF arg.kind = "instance" THEN arg ELSE Registered(registry, arg.id)

\* C13: the simulation entity is constructed with the caller's own instance
\* where one was given and with the instance registered under the identifier,
\* in the registry of that component's kind, where a string was given; a
\* string that its registry does not know ends the run in the
\* unknown-component error with no simulation entity constructed.
C13_ComponentsResolved ==
    /\ "TradingAlgorithm" \in CallsMade =>
           /\ algo.metrics_set = ResolvedFrom(metrics_arg, "metrics")
           /\ algo.blotter = ResolvedFrom(blotter_arg, "Blotter")
           /\ algo.metrics_set.kind = "instance"
           /\ algo.blotter.kind = "instance"
           /\ metrics_arg.kind = "string" => metrics_arg.id \in MetricsRegistry
           /\ blotter_arg.kind = "string" => blotter_arg.id \in BlotterRegistry
           /\ "metrics.load" \in CallsMade <=> metrics_arg.kind = "string"
           /\ "load" \in CallsMade <=> blotter_arg.kind = "string"
    /\ (metrics_arg.kind = "string" /\ metrics_arg.id \notin MetricsRegistry)
       => /\ rpc = "failed"
          /\ err = [kind |-> "UnknownComponentError",
                    detail |-> <<"metrics", metrics_arg.id>>]
    /\ (blotter_arg.kind = "string" /\ blotter_arg.id \notin BlotterRegistry)
       => /\ rpc = "failed"
          /\ err = [kind |-> "UnknownComponentError",
                    detail |-> <<"Blotter", blotter_arg.id>>]
    /\ err.kind = "UnknownComponentError" =>
           /\ "TradingAlgorithm" \notin CallsMade
           /\ algo = NoAlgorithm
           /\ perf = "unset"

\* a registered metrics-set name and a live blotter reach the simulation
C13_Witness ==
    /\ "TradingAlgorithm" \in CallsMade
    /\ metrics_arg = StringId("m_only")
    /\ algo.metrics_set = Registered("metrics", "m_only")
    /\ blotter_arg = LiveInstance
    /\ algo.blotter = LiveInstance

\* ---- the output of a run

SimulationCalls == {"TradingAlgorithm", "run", "choose_loader", "simulation"}

\* what this run called after the simulation entity was done
Routed ==
    LET sim == {i \in 1..Len(calls) : calls[i] \in SimulationCalls}
    IN  IF sim = {} THEN <<>> ELSE SubSeq(calls, Max(sim) + 1, Len(calls))

\* C14: a run that returned took exactly the route its output names: '-'
\* echoes the result and pickles nothing, os.devnull does neither, any other
\* output pickles the result and echoes nothing; the result is routed only
\* after the simulation returned, never in a run that failed, and the same
\* result is returned on every route; a run started by run_algorithm takes
\* the os.devnull route.
C14_OutputRouting ==
    /\ rpc = "returned" =>
           /\ perf = "perf"
           /\ err = NoError
           /\ CountCalls("run") = 1
           /\ output \in Outputs
           /\ Routed = IF output = "-" THEN <<"click.echo">>
                       ELSE IF output = "devnull" THEN <<>>
                       ELSE <<"to_pickle">>
    /\ rpc # "returned" =>
           /\ output = "unset"
           /\ Routed = <<>>
           /\ "to_pickle" \notin CallsMade
    /\ "run" \notin CallsMade =>
           CountCalls("click.echo") <= (IF print_algo THEN 1 ELSE 0)
    /\ (ViaRunAlgorithm /\ rpc = "returned") =>
           /\ output = "devnull"
           /\ "click.echo" \notin CallsMade
           /\ "to_pickle" \notin CallsMade

\* the source was echoed before the run and the result was pickled after it
C14_Witness ==
    /\ rpc = "returned"
    /\ output = "path"
    /\ print_algo
    /\ CountCalls("click.echo") = 1
    /\ Routed = <<"to_pickle">>
    /\ perf = "perf"

\* ---- the resources of a run

\* C15: once the simulation entity has returned or raised, the run holds
\* nothing it opened: in every terminal state of a run that reached the
\* simulation, the one where run() raised included, the bundle and the data
\* portal this run opened have been released.
C15_ResourcesReleased ==
    (rpc \in {"returned", "failed"} /\ "run" \in CallsMade) => held = {}

\* ---- one simulation, no retry

\* the collaborator whose failure an error reports
FailedCall(kind) ==
    CASE kind = "BenchmarkLoadError" -> {"load_market_data"}
      [] kind = "DefinitionEvaluationError" -> {"eval"}
      [] kind = "EmptyDateRangeError" -> {"session_distance"}
      [] kind = "BundleLoadError" -> {"bundles.load"}
      [] kind = "UnknownComponentError" -> {"metrics.load", "load"}
      [] kind = "UnregisteredColumnError" -> {"choose_loader"}
      [] kind = "SimulationError" -> {"simulation"}
      [] kind = "EchoError" -> {"highlight"}
      [] OTHER -> {}

\* the calls of a run: no collaborator but eval and the echo is called twice,
\* a failed run has failed at its last call and has no result
CalledOnce ==
    /\ CountCalls("TradingAlgorithm") <= 1
    /\ CountCalls("run") = CountCalls("TradingAlgorithm")
    /\ rpc = "returned" => CountCalls("run") = 1
    /\ \A fn \in CallsMade \ {"eval", "click.echo"} : CountCalls(fn) = 1
    /\ CountCalls("eval") <= Len(defines)
    /\ err.kind # "none" <=> rpc = "failed"
    /\ rpc = "failed" =>
           /\ perf = "unset"
           /\ FailedCall(err.kind) # {} =>
                  (calls # <<>> /\ calls[Len(calls)] \in FailedCall(err.kind))

\* C16: a run constructs and runs the simulation entity at most once, and
\* exactly once if it returns a result; no step is tried again: after a step
\* fails (benchmark load, define handling, date validation, bundle load,
\* component resolution, simulation) the run is over with that error for the
\* caller, the failed call is the last call it made, and no step is taken
\* from a run that has failed or returned.
C16_OneSimulationNoRetry ==
    /\ []CalledOnce
    /\ [][rpc \notin {"failed", "returned"}]_vars

\* the simulation raised: it was constructed and run once and the run is over
C16_Witness ==
    /\ rpc = "failed"
    /\ err.kind = "SimulationError"
    /\ CountCalls("TradingAlgorithm") = 1
    /\ CountCalls("run") = 1
    /\ calls[Len(calls)] = "simulation"

\* ---- pipeline-loader dispatch

C18_FailureKeepsEarlierBindings ==
    err.kind \in {"DefinitionSyntaxError", "DefinitionEvaluationError"}
    => /\ rpc = "failed"
       /\ di \in 1..Len(defines)
       /\ namespace = BuiltFrom(di - 1)
       /\ \A k \in 1..(di - 1) : NameOf(defines[k]) \in DOMAIN namespace
       /\ \A n \in DOMAIN namespace \ DOMAIN ns0 : DefinesOf(n, di - 1) # {}
       /\ \A n \in DOMAIN ns0 :
              DefinesOf(n, di - 1) = {} => namespace[n] = ns0[n]
       /\ CountCalls("eval") =
              IF err.kind = "DefinitionEvaluationError" THEN di ELSE di - 1
       /\ IF local_namespace THEN user_ns = namespace
          ELSE ns0 = EmptyNamespace /\ user_ns \in {EmptyNamespace,
                                                    SessionNamespace}

\* x=1, y=x, x=z in a session without z: the third define raises and the
\* session keeps x and y
C18_Witness ==
    /\ err.kind = "DefinitionEvaluationError"
    /\ di = 3
    /\ local_namespace
    /\ DOMAIN user_ns = {<<"x">>, <<"y">>}
    /\ user_ns[<<"x">>] = 1
    /\ user_ns[<<"y">>] = 1

\* ---- print_algo

\* C19: print_algo does not change what a run does: at the print step, the
\* run with print_algo set and the run without it, alike in everything else
\* (the strategy given as live callables with no algotext included), have the
\* same outcomes open to them, going on to the calendar or ending in an
\* error.
C19_PrintAlgoHasNoEffect ==
    rpc = "print" =>
        \A pygments \in BOOLEAN, raises \in BOOLEAN :
            ENABLED PrintAlgo(TRUE, pygments, raises)
                <=> ENABLED PrintAlgo(FALSE, pygments, raises)

\* ---- reload

\* the identifier the loop of the main thread is at
CurrentExt == extensions[MainThread][idx[MainThread]]

\* C20: a call with reload attempts every identifier of its list, members
\* of _loaded_extensions included, and skips none; a member whose load fails
\* on such a reload, not strict, is still a member after the warning, so a
\* call without reload that comes to it skips it and cannot attempt it.
C20_ReloadKeepsFailedMember ==
    /\ call[MainThread].reload =>
           /\ \A i \in 1..Len(trace[MainThread]) :
                  /\ trace[MainThread][i].result # "skipped"
                  /\ trace[MainThread][i].ext = extensions[MainThread][i]
           /\ pc[MainThread] = "returned" =>
                  Len(trace[MainThread]) = Len(extensions[MainThread])
    /\ (pc[MainThread] = "try" /\ CurrentExt \in _loaded_extensions) =>
           /\ call[MainThread].reload
           /\ ~call[MainThread].strict =>
                  /\ ENABLED LoadFailWarn(MainThread)
                  /\ ~ENABLED (/\ LoadFailWarn(MainThread)
                               /\ CurrentExt \notin _loaded_extensions')
    /\ (/\ pc[MainThread] = "loop"
        /\ idx[MainThread] <= Len(extensions[MainThread])
        /\ CurrentExt \in _loaded_extensions) =>
           IF call[MainThread].reload
           THEN ENABLED LoopEnter(MainThread) /\ ~ENABLED LoopSkip(MainThread)
           ELSE ENABLED LoopSkip(MainThread) /\ ~ENABLED LoopEnter(MainThread)

\* the default extension, loaded by an earlier call, failed on a reload
\* with a warning and is still a member
C20_Witness ==
    /\ pc[MainThread] = "returned"
    /\ call[MainThread].reload
    /\ ~call[MainThread].strict
    /\ Len(trace[MainThread]) = 1
    /\ trace[MainThread][1].ext = DefaultExtensionPath
    /\ trace[MainThread][1].result = "warned"
    /\ DefaultExtensionPath \in _loaded_extensions

====
